---- MODULE Spec2Model ----
(***************************************************************************)
(* A model of ChatReadRetrieveReadApproach                                 *)
(* (app/backend/approaches/chatreadretrieveread.py): the run pipeline      *)
(* (reformulation, retrieval, prompt assembly, generation) and its two     *)
(* helpers get_chat_history_as_text and get_messages_from_prompt.          *)
(*                                                                         *)
(* A text is a sequence of characters, each a one-character string.  The   *)
(* fixed prose of the class templates (Portuguese instructions holding no  *)
(* marker, no brace and no line break) is written as one symbol per prose  *)
(* line; every marker, slot, separator and every input text is written     *)
(* character by character.                                                 *)
(***************************************************************************)
EXTENDS Integers, Sequences, FiniteSets, TLC

VARIABLES
    pc,                 \* position of run / of the helper under check
    history,            \* argument: sequence of turns [user, bot]
    overrides,          \* argument: the overrides dict
    calls,              \* external calls made so far, in order
    q,                  \* the search query taken from the reformulation
    results,            \* data points extracted from the search results
    readFrom,           \* which field of the results run read
    prompt,             \* the assembled prompt (None until resolved)
    messages,           \* result of get_messages_from_prompt
    error,              \* the exception run (or the helper) ended with
    raised,             \* what an external call raised, if one did
    response,           \* the envelope run returned
    include_last_turn,  \* argument of get_chat_history_as_text
    approx_max_tokens,  \* argument of get_chat_history_as_text
    history_text        \* result of get_chat_history_as_text

vars == <<pc, history, overrides, calls, q, results, readFrom, prompt, messages,
          error, raised, response, include_last_turn, approx_max_tokens,
          history_text>>

-----------------------------------------------------------------------------
(* Python values *)

\* None and an optional value: x is None or a one-element wrapper of a value.
None == <<>>

Some(v) == <<v>>

\* The outcome of a call: a value, or a raised exception.
Ok(v) == [ok |-> TRUE, val |-> v, err |-> "none"]

Raise(e) == [ok |-> FALSE, val |-> <<>>, err |-> e]

-----------------------------------------------------------------------------
(* Literals of the source *)

NL == "\n"

IM_START == <<"<","|","i","m","_","s","t","a","r","t","|",">">>

IM_END == <<"<","|","i","m","_","e","n","d","|",">">>

IM_START_USER == IM_START \o <<"u","s","e","r">>

IM_START_ASSISTANT == IM_START \o <<"a","s","s","i","s","t","a","n","t">>

\* str.splitlines line boundaries: \n, \r, \r\n (one boundary) and \f, which
\* stands for the remaining one-character boundaries (\v, \x1c..\x1e, ...).
LineBoundaries == {"\n", "\r", "\f"}

-----------------------------------------------------------------------------
(* str helpers *)

startswith(s, prefix) ==
    /\ Len(s) >= Len(prefix)
    /\ SubSeq(s, 1, Len(prefix)) = prefix

\* The first position of s at or after i that holds a character of cs, or 0.
Find(s, i, cs) ==
    LET P == {k \in i..Len(s) : s[k] \in cs}
    IN  IF P = {} THEN 0 ELSE CHOOSE k \in P : \A j \in P : k <= j

\* The position after the line boundary at i (\r\n is one boundary).
AfterBoundary(s, i) ==
    IF s[i] = "\r" /\ i < Len(s) /\ s[i+1] = "\n" THEN i + 2 ELSE i + 1

\* The lines of s from position i on: the text before each boundary, then
\* what follows the last boundary unless it is empty.
RECURSIVE SplitFrom(_, _)
SplitFrom(s, i) ==
    LET b == Find(s, i, LineBoundaries)
    IN  IF b = 0
        THEN (IF i <= Len(s) THEN <<SubSeq(s, i, Len(s))>> ELSE <<>>)
        ELSE <<SubSeq(s, i, b - 1)>> \o SplitFrom(s, AfterBoundary(s, b))

splitlines(s) == SplitFrom(s, 1)

\* The concatenation of a sequence of texts.
RECURSIVE Concat(_)
Concat(ss) ==
    IF ss = <<>> THEN <<>>
    ELSE IF Len(ss) = 1 THEN ss[1]
    ELSE LET mid == Len(ss) \div 2
         IN  Concat(SubSeq(ss, 1, mid)) \o Concat(SubSeq(ss, mid + 1, Len(ss)))

\* sep.join(items)
RECURSIVE join(_, _)
join(sep, items) ==
    IF items = <<>> THEN <<>>
    ELSE IF Len(items) = 1 THEN items[1]
    ELSE items[1] \o sep \o join(sep, Tail(items))

\* s.replace(old, new) for a one-character old
replace(s, old, new) ==
    Concat([i \in 1..Len(s) |-> IF s[i] = old THEN new ELSE <<s[i]>>])

-----------------------------------------------------------------------------
(* get_messages_from_prompt *)

\* The body of the loop over prompt.splitlines(): role is None while the
\* local variable is unbound; reading it then raises UnboundLocalError.
RECURSIVE MessagesLoop(_, _, _, _)
MessagesLoop(lines, i, role, msgs) ==
    IF i > Len(lines) THEN Ok(msgs)
    ELSE IF startswith(lines[i], IM_START)
         THEN MessagesLoop(lines, i + 1,
                  Some(SubSeq(lines[i], Len(IM_START) + 1, Len(lines[i]))), msgs)
    ELSE IF startswith(lines[i], IM_END)
         THEN MessagesLoop(lines, i + 1, role, msgs)
    ELSE IF role = None THEN Raise("UnboundLocalError")
    ELSE MessagesLoop(lines, i + 1, role,
             Append(msgs, [role |-> role[1], content |-> lines[i]]))

get_messages_from_prompt(p) == MessagesLoop(splitlines(p), 1, None, <<>>)

-----------------------------------------------------------------------------
(* get_chat_history_as_text *)

\* h.get("bot") is truthy: the key is present and its text is not empty.
BotTruthy(h) == h.bot # None /\ h.bot[1] # <<>>

\* The text one turn adds in front of history_text (line 121).
RenderTurn(h) ==
    IM_START_USER \o <<NL>> \o h.user \o <<NL>> \o IM_END \o <<NL>>
    \o IM_START_ASSISTANT \o <<NL>>
    \o (IF BotTruthy(h) THEN h.bot[1] \o IM_END ELSE <<>>) \o <<NL>>

\* history if include_last_turn else history[:-1]
ConsideredTurns(hist, include) ==
    IF include THEN hist ELSE SubSeq(hist, 1, Len(hist) - 1)

\* Mutant of HistoryLoop: the loop walks the turns oldest first (reversed
\* left out), so the budget cuts the newest turns.
RECURSIVE HistoryLoopForward(_, _, _, _)
HistoryLoopForward(turns, k, text, maxTokens) ==
    IF k > Len(turns) THEN text
    ELSE LET t == RenderTurn(turns[k]) \o text
         IN  IF Len(t) > maxTokens * 4 THEN t
             ELSE HistoryLoopForward(turns, k + 1, t, maxTokens)

HistoryLoop_Forward(turns, i, text, maxTokens) ==
    HistoryLoopForward(turns, 1, text, maxTokens)

\* The loop over reversed(turns): i is the turn about to be prepended.
RECURSIVE HistoryLoop(_, _, _, _)
HistoryLoop(turns, i, text, maxTokens) ==
    IF i < 1 THEN text
    ELSE LET t == RenderTurn(turns[i]) \o text
         IN  IF Len(t) > maxTokens * 4 THEN t
             ELSE HistoryLoop(turns, i - 1, t, maxTokens)

get_chat_history_as_text(hist, include, maxTokens) ==
    LET turns == ConsideredTurns(hist, include)
    IN  HistoryLoop(turns, Len(turns), <<>>, maxTokens)

-----------------------------------------------------------------------------
(* str.format *)

Digits == {"0", "1", "2", "3", "4", "5", "6", "7", "8", "9"}

\* template.format(**kwargs), scanning from position i with out already
\* produced.  "{{" and "}}" are literal braces; "{name}" is replaced by
\* kwargs[name] (KeyError when name is no keyword, IndexError for an empty
\* or numeric name: no positional argument is passed); a lone brace is a
\* ValueError.  The replacement text is not scanned again.
RECURSIVE FormatFrom(_, _, _, _)
FormatFrom(tpl, i, out, kwargs) ==
    LET b == Find(tpl, i, {"{", "}"})
        lit == out \o SubSeq(tpl, i, b - 1)
        j == Find(tpl, b + 1, {"}"})
        name == SubSeq(tpl, b + 1, j - 1)
    IN  IF b = 0 THEN Ok(out \o SubSeq(tpl, i, Len(tpl)))
        ELSE IF b < Len(tpl) /\ tpl[b+1] = tpl[b]
             THEN FormatFrom(tpl, b + 2, Append(lit, tpl[b]), kwargs)
        ELSE IF tpl[b] = "}" THEN Raise("ValueError")
        ELSE IF j = 0 THEN Raise("ValueError")
        ELSE IF \E k \in 1..Len(name) : name[k] = "{" THEN Raise("ValueError")
        ELSE IF name \in DOMAIN kwargs
             THEN FormatFrom(tpl, j + 1, lit \o kwargs[name], kwargs)
        ELSE IF \A k \in 1..Len(name) : name[k] \in Digits THEN Raise("IndexError")
        ELSE Raise("KeyError")

format(tpl, kwargs) == FormatFrom(tpl, 1, <<>>, kwargs)

-----------------------------------------------------------------------------
(* The class templates *)

K_sources == <<"s","o","u","r","c","e","s">>

K_chat_history == <<"c","h","a","t","_","h","i","s","t","o","r","y">>

K_injected_prompt == <<"i","n","j","e","c","t","e","d","_","p","r","o","m","p","t">>

K_follow_up_questions_prompt ==
    <<"f","o","l","l","o","w","_","u","p","_","q","u","e","s","t","i","o","n","s",
      "_","p","r","o","m","p","t">>

K_question == <<"q","u","e","s","t","i","o","n">>

Slot(name) == <<"{">> \o name \o <<"}">>

\* prompt_prefix (lines 16-27); "[prose:n]" is the prose of source line n.
prompt_prefix ==
    IM_START \o <<"s","y","s","t","e","m">> \o <<NL>>
    \o <<"[prose:17]", NL, "[prose:18]", NL, "[prose:19]", NL, "[prose:20]", NL>>
    \o Slot(K_follow_up_questions_prompt) \o <<NL>>
    \o Slot(K_injected_prompt) \o <<NL>>
    \o <<"S","o","u","r","c","e","s",":">> \o <<NL>>
    \o Slot(K_sources) \o <<NL>>
    \o IM_END \o <<NL>>
    \o Slot(K_chat_history) \o <<NL>>

\* follow_up_questions_prompt_content (lines 29-32)
follow_up_questions_prompt_content ==
    <<"[prose:29]", NL, "[prose:30]", NL, "[prose:31]", NL, "[prose:32]">>

\* query_prompt_template (lines 34-47), in the three parts its two slots cut
QueryHead ==
    <<"[prose:34]", NL, "[prose:35]", NL, "[prose:36]", NL, "[prose:37]", NL,
      "[prose:38]", NL, NL>>
    \o <<"C","h","a","t"," ","H","i","s","t","o","r","y",":">> \o <<NL>>

QueryMiddle == <<NL, NL>> \o <<"Q","u","e","s","t","i","o","n",":">> \o <<NL>>

QueryTail ==
    <<NL, NL>> \o <<"S","e","a","r","c","h"," ","q","u","e","r","y",":">> \o <<NL>>

query_prompt_template ==
    QueryHead \o Slot(K_chat_history) \o QueryMiddle \o Slot(K_question)
    \o QueryTail

INJECT_MARKER == <<">", ">", ">">>

-----------------------------------------------------------------------------
(* Bounds and input sets *)

\* longest history given to run and to get_chat_history_as_text
MaxTurns == 2

\* most keys present in an overrides dict
MaxKeys == 2

\* most documents a retrieval call returns
MaxDocs == 1

\* most lines of a prompt text given to get_messages_from_prompt
MaxLines == 3

Opt(S) == {None} \cup {Some(v) : v \in S}

SeqsUpTo(S, n) == UNION {[1..k -> S] : k \in 0..n}

Turns ==
    { [user |-> <<"h","i">>, bot |-> None],
      [user |-> <<"n","o","?">>, bot |-> Some(<<"o","k">>)] }

Categories == { <<>>, <<"O","'","R","'","'">> }

\* override templates: an injection, a full template using the slots run
\* passes, one using the injection slot, one declaring no role
PromptTemplates ==
    { INJECT_MARKER \o <<"B","e",".">>,
      IM_START \o <<"s", NL>> \o Slot(K_sources) \o <<NL>> \o Slot(K_chat_history)
          \o Slot(K_follow_up_questions_prompt),
      IM_START \o <<"s", NL>> \o Slot(K_injected_prompt) \o Slot(K_sources),
      Slot(K_sources) \o <<"?">> }

OverridesSpace ==
    [ semantic_captions : Opt(BOOLEAN),
      top : Opt({0, 5}),
      exclude_category : Opt(Categories),
      semantic_ranker : Opt(BOOLEAN),
      suggest_followup_questions : Opt({TRUE}),
      prompt_template : Opt(PromptTemplates),
      temperature : Opt({2}) ]

OverrideKeys ==
    {"semantic_captions", "top", "exclude_category", "semantic_ranker",
     "suggest_followup_questions", "prompt_template", "temperature"}

Overrides ==
    {o \in OverridesSpace :
        Cardinality({k \in OverrideKeys : o[k] # None}) <= MaxKeys}

\* A search result: a page identifier, a content field and, when the call
\* asked the service to extract captions, the texts of the caption fragments.
Doc(withCaptions) ==
    [ sourcepage |-> <<"a">>, content |-> <<"x", NL, "y">>,
      captions |-> IF withCaptions THEN Some(<< <<"c">>, <<"d", NL>> >>) ELSE None ]

\* What the search service may answer to a call.
SearchAnswers(call) == SeqsUpTo({Doc(call.query_caption # None)}, MaxDocs)

\* what a completion service answers: the texts of its choices
Choices == { <<>>, << <<"k","w">> >> }

ExternalErrors == {"ServiceUnavailable", "RateLimit"}

-----------------------------------------------------------------------------
(* run: the values of lines 57-60 *)

DefaultTop == 3

DefaultApproxMaxTokens == 1000

\* 0.7, in tenths
DefaultTemperature == 7

\* overrides.get(k) is truthy
TruthyBool(x) == x # None /\ x[1]

TruthyInt(x) == x # None /\ x[1] # 0

TruthyStr(x) == x # None /\ x[1] # <<>>

use_semantic_captions(o) == TruthyBool(o.semantic_captions)

\* Mutant of top: overrides.get("top", 3), which keeps a falsy value.
top_GetDefault(o) == IF o.top # None THEN o.top[1] ELSE DefaultTop

top(o) == IF TruthyInt(o.top) THEN o.top[1] ELSE DefaultTop

\* Mutant of EscapeQuotes: the category is used as given.
EscapeQuotes_Raw(v) == v

\* exclude_category.replace("'", "''")
EscapeQuotes(v) == replace(v, "'", <<"'", "'">>)

FILTER_PREFIX == <<"c","a","t","e","g","o","r","y"," ","n","e"," ","'">>

filter(o) ==
    IF TruthyStr(o.exclude_category)
    THEN Some(FILTER_PREFIX \o EscapeQuotes(o.exclude_category[1]) \o <<"'">>)
    ELSE None

-----------------------------------------------------------------------------
(* run: the external calls and what run computes between them *)

\* openai.Completion.create(...) of lines 64-70
CompletionCall(p) ==
    [ op |-> "Completion.create", engine |-> "self.gpt_deployment", prompt |-> p,
      temperature |-> 0, max_tokens |-> 32, n |-> 1, stop |-> << <<NL>> >> ]

\* self.search_client.search(...) of lines 74-84; a keyword the plain call
\* does not pass is None
SearchCall(query, o) ==
    IF TruthyBool(o.semantic_ranker)
    THEN [ op |-> "search", search_text |-> query, filter |-> filter(o),
           query_type |-> Some("semantic"), query_language |-> Some("en-us"),
           query_speller |-> Some("lexicon"),
           semantic_configuration_name |-> Some("default"), top |-> top(o),
           query_caption |-> IF use_semantic_captions(o)
                             THEN Some("extractive|highlight-false") ELSE None ]
    ELSE [ op |-> "search", search_text |-> query, filter |-> filter(o),
           query_type |-> None, query_language |-> None, query_speller |-> None,
           semantic_configuration_name |-> None, top |-> top(o),
           query_caption |-> None ]

\* openai.ChatCompletion.create(...) of lines 105-112; temperature in tenths
ChatCall(msgs, o) ==
    [ op |-> "ChatCompletion.create", deployment_id |-> "self.chatgpt_deployment",
      model |-> "gpt-3.5-turbo", messages |-> msgs,
      temperature |-> IF TruthyInt(o.temperature) THEN o.temperature[1]
                      ELSE DefaultTemperature,
      max_tokens |-> 1024, n |-> 1, stop |-> <<IM_END, IM_START>> ]

\* text.nonewlines
nonewlines(s) == replace(replace(s, "\n", <<" ">>), "\r", <<" ">>)

\* Mutant of QueryPrompt: the history is rendered with its last turn.
QueryPrompt_WithLastTurn(hist) ==
    LET chat == get_chat_history_as_text(hist, TRUE, DefaultApproxMaxTokens)
    IN  IF hist = <<>> THEN Raise("IndexError")
        ELSE format(query_prompt_template,
                    (K_chat_history :> chat) @@ (K_question :> hist[Len(hist)].user))

\* The prompt of line 63; history[-1] raises IndexError on an empty history.
QueryPrompt(hist) ==
    LET chat == get_chat_history_as_text(hist, FALSE, DefaultApproxMaxTokens)
    IN  IF hist = <<>> THEN Raise("IndexError")
        ELSE format(query_prompt_template,
                    (K_chat_history :> chat) @@ (K_question :> hist[Len(hist)].user))

\* Which field of the documents lines 85-88 read.
ReadField(docs, o) ==
    IF docs = <<>> THEN "nothing"
    ELSE IF use_semantic_captions(o) THEN "captions" ELSE "content"

\* results of lines 85-88; iterating the captions of a document that carries
\* none raises TypeError.
ExtractResults(docs, o) ==
    IF use_semantic_captions(o)
    THEN IF \E i \in 1..Len(docs) : docs[i].captions = None
         THEN Raise("TypeError")
         ELSE Ok([i \in 1..Len(docs) |->
                    docs[i].sourcepage \o <<":", " ">>
                    \o nonewlines(join(<<" ", ".", " ">>, docs[i].captions[1]))])
    ELSE Ok([i \in 1..Len(docs) |->
               docs[i].sourcepage \o <<":", " ">> \o nonewlines(docs[i].content)])

\* follow_up_questions_prompt of line 91
FollowUp(o) ==
    IF TruthyBool(o.suggest_followup_questions)
    THEN follow_up_questions_prompt_content ELSE <<>>

\* The keyword arguments every branch of lines 95-100 passes.
CommonKwargs(o, content, hist) ==
    (K_sources :> content)
    @@ (K_chat_history :> get_chat_history_as_text(hist, TRUE, DefaultApproxMaxTokens))
    @@ (K_follow_up_questions_prompt :> FollowUp(o))

\* Mutant of ResolvePrompt: every override replaces the template.
ResolvePrompt_AlwaysReplace(o, content, hist) ==
    IF o.prompt_template = None
    THEN format(prompt_prefix,
                (K_injected_prompt :> <<>>) @@ CommonKwargs(o, content, hist))
    ELSE format(o.prompt_template[1], CommonKwargs(o, content, hist))

\* Lines 94-100: the prompt, or the exception str.format raises.
ResolvePrompt(o, content, hist) ==
    LET prompt_override == o.prompt_template
    IN  IF prompt_override = None
        THEN format(prompt_prefix,
                    (K_injected_prompt :> <<>>) @@ CommonKwargs(o, content, hist))
        ELSE IF startswith(prompt_override[1], INJECT_MARKER)
        THEN format(prompt_prefix,
                    (K_injected_prompt :>
                        SubSeq(prompt_override[1], 4, Len(prompt_override[1])) \o <<NL>>)
                    @@ CommonKwargs(o, content, hist))
        ELSE format(prompt_override[1], CommonKwargs(o, content, hist))

BR == <<"<", "b", "r", ">">>

\* The envelope of line 116.
Envelope(data_points, answer, query, p) ==
    [ data_points |-> data_points, answer |-> answer,
      thoughts |-> <<"S","e","a","r","c","h","e","d"," ","f","o","r",":">> \o BR
                   \o query \o BR \o BR
                   \o <<"P","r","o","m","p","t",":">> \o BR \o replace(p, "\n", BR) ]

-----------------------------------------------------------------------------
(* run as a state machine: one step up to each external call *)

NoOverrides ==
    [ semantic_captions |-> None, top |-> None, exclude_category |-> None,
      semantic_ranker |-> None, suggest_followup_questions |-> None,
      prompt_template |-> None, temperature |-> None ]

Init ==
    /\ pc = "idle"
    /\ history = <<>>
    /\ overrides = NoOverrides
    /\ calls = <<>>
    /\ q = None
    /\ results = <<>>
    /\ readFrom = "nothing"
    /\ prompt = None
    /\ messages = <<>>
    /\ error = "none"
    /\ raised = None
    /\ response = None
    /\ include_last_turn = TRUE
    /\ approx_max_tokens = DefaultApproxMaxTokens
    /\ history_text = <<>>

Fail(e) == pc' = "failed" /\ error' = e

\* run(history, overrides) up to the reformulation call (lines 57-70)
Begin(h, o) ==
    /\ pc = "idle"
    /\ history' = h
    /\ overrides' = o
    /\ LET p == QueryPrompt(h)
       IN  IF p.ok
           THEN /\ calls' = Append(calls, CompletionCall(p.val))
                /\ pc' = "reformulating"
                /\ error' = error
           ELSE /\ Fail(p.err)
                /\ calls' = calls
    /\ UNCHANGED <<q, results, readFrom, prompt, messages, raised, response,
                   include_last_turn, approx_max_tokens, history_text>>

\* Mutant of CallRaises: the error is caught and the call made again.
CallRaises_Retry(at, e) ==
    /\ pc = at
    /\ Len(calls) <= 3
    /\ raised' = Some([op |-> calls[Len(calls)].op, err |-> e])
    /\ calls' = Append(calls, calls[Len(calls)])
    /\ UNCHANGED <<pc, error, history, overrides, q, results, readFrom, prompt,
                   messages, response, include_last_turn, approx_max_tokens,
                   history_text>>

\* An external call raises: nothing in run catches it.
CallRaises(at, e) ==
    /\ pc = at
    /\ raised' = Some([op |-> calls[Len(calls)].op, err |-> e])
    /\ Fail(e)
    /\ UNCHANGED <<history, overrides, calls, q, results, readFrom, prompt,
                   messages, response, include_last_turn, approx_max_tokens,
                   history_text>>

\* Mutant of CompletionReturns: the retrieval call searches for the user's
\* question, not for the query the reformulation returned.
CompletionReturns_RawQuestion(choices) ==
    /\ pc = "reformulating"
    /\ IF choices = <<>>
       THEN /\ Fail("IndexError")
            /\ UNCHANGED <<q, calls>>
       ELSE /\ q' = Some(choices[1])
            /\ calls' = Append(calls,
                            SearchCall(history[Len(history)].user, overrides))
            /\ pc' = "retrieving"
            /\ error' = error
    /\ UNCHANGED <<history, overrides, results, readFrom, prompt, messages,
                   raised, response, include_last_turn, approx_max_tokens,
                   history_text>>

\* The reformulation call returns; run takes the query and makes the
\* retrieval call (lines 71-84).
CompletionReturns(choices) ==
    /\ pc = "reformulating"
    /\ IF choices = <<>>
       THEN /\ Fail("IndexError")
            /\ UNCHANGED <<q, calls>>
       ELSE /\ q' = Some(choices[1])
            /\ calls' = Append(calls, SearchCall(choices[1], overrides))
            /\ pc' = "retrieving"
            /\ error' = error
    /\ UNCHANGED <<history, overrides, results, readFrom, prompt, messages,
                   raised, response, include_last_turn, approx_max_tokens,
                   history_text>>

\* The retrieval call returns; run extracts the data points, resolves the
\* prompt, parses it into messages and makes the generation call
\* (lines 85-112).
SearchReturns(docs) ==
    /\ pc = "retrieving"
    /\ readFrom' = ReadField(docs, overrides)
    /\ LET r == ExtractResults(docs, overrides)
           p == ResolvePrompt(overrides, join(<<NL>>, r.val), history)
           m == get_messages_from_prompt(p.val)
       IN  IF ~r.ok
           THEN /\ Fail(r.err)
                /\ UNCHANGED <<results, prompt, messages, calls>>
           ELSE IF ~p.ok
           THEN /\ Fail(p.err)
                /\ results' = r.val
                /\ UNCHANGED <<prompt, messages, calls>>
           ELSE IF ~m.ok
           THEN /\ Fail(m.err)
                /\ results' = r.val
                /\ prompt' = Some(p.val)
                /\ UNCHANGED <<messages, calls>>
           ELSE /\ results' = r.val
                /\ prompt' = Some(p.val)
                /\ messages' = m.val
                /\ calls' = Append(calls, ChatCall(m.val, overrides))
                /\ pc' = "generating"
                /\ error' = error
    /\ UNCHANGED <<history, overrides, q, raised, response, include_last_turn,
                   approx_max_tokens, history_text>>

\* The generation call returns; run returns the envelope (lines 114-116).
ChatReturns(choices) ==
    /\ pc = "generating"
    /\ IF choices = <<>>
       THEN /\ Fail("IndexError")
            /\ response' = response
       ELSE /\ response' = Some(Envelope(results, choices[1], q[1], prompt[1]))
            /\ pc' = "returned"
            /\ error' = error
    /\ UNCHANGED <<history, overrides, calls, q, results, readFrom, prompt,
                   messages, raised, include_last_turn, approx_max_tokens,
                   history_text>>

Next ==
    \/ pc = "idle" /\ \E h \in SeqsUpTo(Turns, MaxTurns), o \in Overrides : Begin(h, o)
    \/ \E c \in Choices : CompletionReturns(c)
    \/ pc = "retrieving" /\ \E d \in SearchAnswers(calls[Len(calls)]) : SearchReturns(d)
    \/ \E c \in Choices : ChatReturns(c)
    \/ \E at \in {"reformulating", "retrieving", "generating"},
          e \in ExternalErrors : CallRaises(at, e)

Spec == Init /\ [][Next]_vars

-----------------------------------------------------------------------------
(* get_messages_from_prompt on its own, over bounded prompt texts *)

PromptLines ==
    { IM_START \o <<"u">>, IM_START, IM_END, <<"a">>, <<>>, <<"a">> \o IM_END }

LineSeparators == { <<"\n">>, <<"\r", "\n">> }

PromptTexts ==
    {join(sep, ls) : sep \in LineSeparators, ls \in SeqsUpTo(PromptLines, MaxLines)}

InitMessages ==
    /\ pc = "call_messages"
    /\ prompt \in {Some(p) : p \in PromptTexts}
    /\ history = <<>>
    /\ overrides = NoOverrides
    /\ calls = <<>>
    /\ q = None
    /\ results = <<>>
    /\ readFrom = "nothing"
    /\ messages = <<>>
    /\ error = "none"
    /\ raised = None
    /\ response = None
    /\ include_last_turn = TRUE
    /\ approx_max_tokens = DefaultApproxMaxTokens
    /\ history_text = <<>>

GetMessages ==
    /\ pc = "call_messages"
    /\ LET m == get_messages_from_prompt(prompt[1])
       IN  /\ pc' = IF m.ok THEN "returned" ELSE "failed"
           /\ messages' = m.val
           /\ error' = m.err
    /\ UNCHANGED <<history, overrides, calls, q, results, readFrom, prompt, raised,
                   response, include_last_turn, approx_max_tokens, history_text>>

SpecMessages == InitMessages /\ [][GetMessages]_vars

-----------------------------------------------------------------------------
(* get_chat_history_as_text on its own, over bounded histories and budgets *)

\* longest history given to get_chat_history_as_text on its own
MaxHistTurns == 3

\* approx_max_tokens values: the turns of Turns render to 54 and 67
\* characters, so budgets of 52, 56 and 108 characters cut after one, two
\* and three turns; the default cuts nothing here
TokenBudgets == {13, 14, 27, DefaultApproxMaxTokens}

InitHistory ==
    /\ pc = "call_history"
    /\ history \in SeqsUpTo(Turns, MaxHistTurns)
    /\ include_last_turn \in BOOLEAN
    /\ approx_max_tokens \in TokenBudgets
    /\ history_text = <<>>
    /\ overrides = NoOverrides
    /\ calls = <<>>
    /\ q = None
    /\ results = <<>>
    /\ readFrom = "nothing"
    /\ prompt = None
    /\ messages = <<>>
    /\ error = "none"
    /\ raised = None
    /\ response = None

GetChatHistory ==
    /\ pc = "call_history"
    /\ history_text' =
           get_chat_history_as_text(history, include_last_turn, approx_max_tokens)
    /\ pc' = "returned"
    /\ UNCHANGED <<history, overrides, calls, q, results, readFrom, prompt, messages,
                   error, raised, response, include_last_turn, approx_max_tokens>>

SpecHistory == InitHistory /\ [][GetChatHistory]_vars

-----------------------------------------------------------------------------
(* Properties *)

Last(seq) == seq[Len(seq)]

Front(seq) == SubSeq(seq, 1, Len(seq) - 1)

\* The transcript of turns k..Len(turns), oldest first.
RenderFrom(turns, k) ==
    Concat([i \in 1..(Len(turns) - k + 1) |-> RenderTurn(turns[k + i - 1])])

Contains(s, sub) ==
    \E i \in 0..(Len(s) - Len(sub)) : SubSeq(s, i + 1, i + Len(sub)) = sub

CallOrder == <<"Completion.create", "search", "ChatCompletion.create">>

THM_C2 ==
    /\ raised # None =>
          /\ pc = "failed"
          /\ error = raised[1].err
          /\ response = None
          /\ Last(calls).op = raised[1].op
          /\ Cardinality({i \in 1..Len(calls) : calls[i].op = raised[1].op}) = 1
    /\ pc = "failed" => response = None
    /\ (pc # "idle" /\ history = <<>>) =>
          /\ pc = "failed"
          /\ error = "IndexError"
          /\ calls = <<>>
          /\ response = None

WIT_C2 ==
    /\ raised # None
    /\ raised[1].op = "search"
    /\ pc = "failed"
    /\ Len(calls) = 2

\* The lines of a prompt that begin with neither marker, as positions.
ContentLines(lines) ==
    {i \in 1..Len(lines) :
        ~startswith(lines[i], IM_START) /\ ~startswith(lines[i], IM_END)}

RoleLines(lines) == {i \in 1..Len(lines) : startswith(lines[i], IM_START)}

Max(S) == CHOOSE x \in S : \A y \in S : y <= x

\* The k-th smallest element of a finite set of integers.
Nth(S, k) == CHOOSE x \in S : Cardinality({y \in S : y < x}) = k - 1

\* C3 (as claimed): for every prompt text get_messages_from_prompt returns
\* one message per line beginning with neither marker, in line order, its
\* content the line and its role the text after the marker of the nearest
\* preceding role-start line.
CE_C3 ==
    pc \in {"returned", "failed"} =>
        LET lines == splitlines(prompt[1])
            C == ContentLines(lines)
        IN  /\ pc = "returned"
            /\ Len(messages) = Cardinality(C)
            /\ \A k \in 1..Len(messages) :
                  LET i == Nth(C, k)
                      R == {j \in RoleLines(lines) : j < i}
                  IN  /\ messages[k].content = lines[i]
                      /\ R # {}
                      /\ messages[k].role =
                            SubSeq(lines[Max(R)], Len(IM_START) + 1, Len(lines[Max(R)]))

\* C4 (as claimed): the transcript is the rendering of a run of the
\* considered turns that ends at the newest, and is not longer than the
\* budget.
CE_C4 ==
    pc = "returned" =>
        LET turns == ConsideredTurns(history, include_last_turn)
        IN  /\ \E k \in 1..(Len(turns) + 1) : history_text = RenderFrom(turns, k)
            /\ Len(history_text) <= approx_max_tokens * 4

\* C4 (amended): the transcript is the rendering of a run of the considered
\* turns that ends at the newest; without its oldest retained turn it is not
\* longer than the budget, and a turn is dropped only when the transcript is
\* longer than the budget.
THM_C4 ==
    pc = "returned" =>
        LET turns == ConsideredTurns(history, include_last_turn)
            budget == approx_max_tokens * 4
        IN  \E k \in 1..(Len(turns) + 1) :
               /\ history_text = RenderFrom(turns, k)
               /\ k <= Len(turns) => Len(RenderFrom(turns, k + 1)) <= budget
               /\ k > 1 => Len(history_text) > budget

WIT_C4 ==
    /\ pc = "returned"
    /\ include_last_turn
    /\ Len(history) = 3
    /\ history_text = RenderFrom(history, 2)
    /\ Len(history_text) > approx_max_tokens * 4

\* C5: the reformulation prompt is the query template with the user text of
\* the last turn as its question and, as its chat history, the rendering of a
\* run of the turns before the last one; an answer prompt whose template has
\* the chat-history slot holds the rendering of the last turn.
THM_C5 ==
    (history # <<>> /\ calls # <<>>) =>
        /\ \E k \in 1..Len(history) :
              calls[1].prompt =
                  QueryHead \o RenderFrom(Front(history), k) \o QueryMiddle
                  \o Last(history).user \o QueryTail
        /\ ( /\ prompt # None
             /\ \/ overrides.prompt_template = None
                \/ startswith(overrides.prompt_template[1], INJECT_MARKER)
                \/ Contains(overrides.prompt_template[1], Slot(K_chat_history)) )
           => Contains(prompt[1], RenderTurn(Last(history)))

WIT_C5 ==
    /\ pc = "generating"
    /\ Len(history) = 2
    /\ history[1] # history[2]
    /\ calls[1].prompt =
           QueryHead \o RenderTurn(history[1]) \o QueryMiddle
           \o history[2].user \o QueryTail

\* Lines 94-100 were reached: the retrieval call returned and the data points
\* were extracted.
ResolutionReached ==
    \/ pc \in {"generating", "returned"}
    \/ Len(calls) = 3
    \/ /\ pc = "failed"
       /\ Len(calls) = 2
       /\ raised = None
       /\ error # "TypeError"

\* The default template with its four slots filled.
DefaultPrompt(follow, injected, sources, chat) ==
    IM_START \o <<"s","y","s","t","e","m">> \o <<NL>>
    \o <<"[prose:17]", NL, "[prose:18]", NL, "[prose:19]", NL, "[prose:20]", NL>>
    \o follow \o <<NL>>
    \o injected \o <<NL>>
    \o <<"S","o","u","r","c","e","s",":">> \o <<NL>>
    \o sources \o <<NL>>
    \o IM_END \o <<NL>>
    \o chat \o <<NL>>

\* C6: with no override the prompt is the default template with an empty
\* injection slot; with an override beginning with ">>>" it is the default
\* template whose injection slot holds the text after the marker (followed by
\* a line break); with any other override it is the override formatted as
\* the template, or run fails with the error formatting it raises.
THM_C6 ==
    ResolutionReached =>
        LET po == overrides.prompt_template
            follow == IF overrides.suggest_followup_questions = Some(TRUE)
                      THEN follow_up_questions_prompt_content ELSE <<>>
            sources == join(<<NL>>, results)
        IN  IF po = None
            THEN \E k \in 1..Len(history) :
                    prompt = Some(DefaultPrompt(follow, <<>>, sources,
                                                RenderFrom(history, k)))
            ELSE IF SubSeq(po[1], 1, 3) = <<">", ">", ">">>
            THEN \E k \in 1..Len(history) :
                    prompt = Some(DefaultPrompt(follow,
                                      SubSeq(po[1], 4, Len(po[1])) \o <<NL>>,
                                      sources, RenderFrom(history, k)))
            ELSE LET f == format(po[1], CommonKwargs(overrides, sources, history))
                 IN  IF f.ok THEN prompt = Some(f.val)
                     ELSE prompt = None /\ pc = "failed" /\ error = f.err

WIT_C6 ==
    /\ pc = "generating"
    /\ overrides.prompt_template # None
    /\ startswith(overrides.prompt_template[1], INJECT_MARKER)
    /\ Contains(prompt[1], <<NL, "B", "e", ".", NL, NL, "S", "o", "u">>)

\* C7 (as claimed): an override that does not begin with the marker and uses
\* only the slots of the default template resolves to a prompt, and run goes
\* on to the generation call.  (A resolved prompt that declares no role fails
\* in get_messages_from_prompt: that failure is C3's and is set aside here.)
CE_C7 ==
    ( /\ ResolutionReached
      /\ overrides.prompt_template # None
      /\ ~startswith(overrides.prompt_template[1], INJECT_MARKER) )
    => /\ prompt # None
       /\ error # "UnboundLocalError" => Len(calls) = 3

\* C8: the retrieval call asks for 3 results when the top override is absent
\* or falsy and for the given number otherwise; with empty overrides it asks
\* for 3 results with no filter in plain mode; it is in semantic mode exactly
\* when the semantic_ranker override is truthy.
THM_C8 ==
    Len(calls) >= 2 =>
        LET c == calls[2]
        IN  /\ c.top = IF overrides.top \in {None, Some(0)} THEN 3
                       ELSE overrides.top[1]
            /\ overrides = NoOverrides =>
                  c.top = 3 /\ c.filter = None /\ c.query_type = None
            /\ c.query_type \in {None, Some("semantic")}
            /\ c.query_type = Some("semantic")
                  <=> overrides.semantic_ranker = Some(TRUE)

WIT_C8 ==
    /\ Len(calls) >= 2
    /\ overrides.top = Some(0)
    /\ overrides.semantic_ranker = Some(TRUE)
    /\ calls[2].top = 3

\* The number of quote characters among the first n characters of v.
QuotesBefore(v, n) == Cardinality({j \in 1..n : v[j] = "'"})

\* C9: for a non-empty exclude_category v the filter is "category ne '",
\* then v with each quote character written twice, then "'", and every
\* maximal run of quote characters between the delimiting quotes has even
\* length; with an absent or empty exclude_category there is no filter.
THM_C9 ==
    Len(calls) >= 2 =>
        LET f == calls[2].filter
            x == overrides.exclude_category
        IN  IF x = None \/ x[1] = <<>> THEN f = None
            ELSE LET v == x[1]
                     n == Len(FILTER_PREFIX)
                     inner == SubSeq(f[1], n + 1, Len(f[1]) - 1)
                 IN  /\ f # None
                     /\ SubSeq(f[1], 1, n) = FILTER_PREFIX
                     /\ f[1][Len(f[1])] = "'"
                     /\ Len(inner) = Len(v) + QuotesBefore(v, Len(v))
                     /\ \A i \in 1..Len(v) :
                           /\ inner[i + QuotesBefore(v, i - 1)] = v[i]
                           /\ v[i] = "'" => inner[i + QuotesBefore(v, i - 1) + 1] = "'"
                     /\ \A a \in 1..Len(inner), b \in 1..Len(inner) :
                           ( /\ a <= b
                             /\ \A j \in a..b : inner[j] = "'"
                             /\ a = 1 \/ inner[a - 1] # "'"
                             /\ b = Len(inner) \/ inner[b + 1] # "'" )
                           => (b - a + 1) % 2 = 0

WIT_C9 ==
    /\ Len(calls) >= 2
    /\ overrides.exclude_category = Some(<<"O","'","R","'","'">>)
    /\ calls[2].filter # None

\* C10 (as claimed): run reads the caption fragments of the results only
\* when the retrieval call was made in semantic mode and asked for captions.
CE_C10 ==
    readFrom = "captions" =>
        /\ calls[2].query_type = Some("semantic")
        /\ calls[2].query_caption # None

====
